---- MODULE Spec2Model ----
(***************************************************************************)
(* Model of the packaging scripts of PDF-Compare:                          *)
(*   scripts/download_poppler.py                 (the Fetcher)             *)
(*   scripts/build_macos.py                      (the Assembler)           *)
(*   scripts/pyinstaller_hooks/rthook_tcltk_macos.py (the Runtime Hook)    *)
(* The scripts share nothing but the project's file system, which is the   *)
(* persistent part of the state; every script is a sequential run whose    *)
(* position is a pc variable.                                              *)
(***************************************************************************)
EXTENDS Integers, Sequences, FiniteSets, TLC

(***************************************************************************)
(* Bounds of the model.                                                    *)
(***************************************************************************)
\* Top-level directories one downloaded archive unpacks to, at most.
MaxEntries == 2
\* Characters the operator types at the "Re-download? (y/N)" prompt, at most.
MaxAnswerLen == 2
\* Block sizes the transport reads with: 1..MaxBlockSize bytes.
MaxBlockSize == 2
\* Largest body (and Content-Length) of a download, in bytes.
MaxTotalSize == 3

(***************************************************************************)
(* File names.  A name is the sequence of its segments, so that            *)
(* str.startswith is a prefix test and not the identity.                   *)
(***************************************************************************)
Poppler == <<"poppler">>
PopplerVersioned == <<"poppler", "-24.08.0-0">>
ReleaseVersioned == <<"Release", "-24.08.0-0">>
Docs == <<"docs">>
Names == {Poppler, PopplerVersioned, ReleaseVersioned, Docs}

\* extracted_dir = None
None == <<>>

\* Paths below a child directory of vendor/.
LibBin == "Library/bin"
Exe == "Library/bin/pdftoppm.exe"
MacBinDir == "bin"
MacBin == "bin/pdftoppm"

\* What a directory of an archive holds: nothing of interest, the binary
\* directory alone, the Windows binary, or the Windows and the Unix binary.
Layouts == { {}, {LibBin}, {LibBin, Exe}, {LibBin, Exe, MacBinDir, MacBin} }

\* An archive: its top-level directories and what each holds.
Archives ==
  UNION { [S -> Layouts] : S \in {T \in SUBSET Names : Cardinality(T) <= MaxEntries} }

(***************************************************************************)
(* Strings typed at the prompt: sequences of characters.                   *)
(***************************************************************************)
Chars == {"y", "Y", "n", " "}
Answers == UNION { [1..k -> Chars] : k \in 0..MaxAnswerLen }

\* str.lower()
LowerChar(c) == IF c = "Y" THEN "y" ELSE c
Lower(s) == [i \in 1..Len(s) |-> LowerChar(s[i])]

\* str.strip(): drops the leading and the trailing whitespace
RECURSIVE LStrip(_)
LStrip(s) == IF s # <<>> /\ Head(s) = " " THEN LStrip(Tail(s)) ELSE s
RECURSIVE RStrip(_)
RStrip(s) ==
  IF s # <<>> /\ s[Len(s)] = " " THEN RStrip(SubSeq(s, 1, Len(s) - 1)) ELSE s
Strip(s) == RStrip(LStrip(s))

\* str.startswith(prefix), on names
StartsWith(name, prefix) ==
  Len(name) >= Len(prefix) /\ SubSeq(name, 1, Len(prefix)) = prefix

(***************************************************************************)
(* The Fetcher's messages.                                                 *)
(***************************************************************************)
MsgExists == "Poppler already exists at"
MsgSkip == "Skipping download."
MsgDownloading == "[1/3] Downloading Poppler"
MsgErrZeroDiv == "Error downloading: division by zero"
MsgErrTransport == "Error downloading: transport error"
MsgManual == "Manual download instructions"
MsgExtracting == "[2/3] Extracting..."
MsgTraceback == "Traceback: zipfile.BadZipFile"
MsgCleaning == "[3/3] Cleaning up..."
MsgSuccess == "SUCCESS!"
MsgNotFound == "Error: Poppler binaries not found after extraction"

VARIABLES
  vendorExists,   \* vendor/ exists
  vendor,         \* child directories of vendor/: name -> paths below it
  zipExists,      \* vendor/poppler.zip exists
  pc,             \* position of the running Fetcher
  response,       \* main: response
  extracted_dir,  \* main: extracted_dir
  out,            \* what the Fetcher printed in this run
  exitCode,       \* the Fetcher's exit code, once pc = "done"
  dl,             \* urlretrieve: blocknum, bs, size
  percent         \* progress_hook: the value last written, <<>> before any

fvars == <<vendorExists, vendor, zipExists, pc, response, extracted_dir, out,
           exitCode, dl, percent>>

VARIABLES
  apc,                  \* position of the running Assembler
  has_bundled_poppler,  \* build_macos.main: has_bundled_poppler
  buildfs,              \* build/, dist/, *.spec and dist/PDF Compare.app exist
  pyinstaller_args,     \* build_macos.main: pyinstaller_args
  result,               \* how subprocess.run(pyinstaller_args) ended
  aout,                 \* what the Assembler printed in this run
  aexit                 \* the Assembler's exit code, once apc = "done"

avars == <<apc, has_bundled_poppler, buildfs, pyinstaller_args, result, aout, aexit>>

VARIABLES
  hpc,        \* position of the runtime hook
  frozen,     \* getattr(sys, 'frozen', False)
  bundle,     \* sys._MEIPASS: entry name -> "absent", "file" or "dir"
  environ,    \* os.environ, TCL_LIBRARY and TK_LIBRARY
  environ0,   \* os.environ when the hook started
  tcl_lib,    \* the hook's tcl_lib
  tk_lib,     \* the hook's tk_lib
  loaded,     \* libraries loaded by ctypes.CDLL, in order
  raised      \* an exception left the hook

hvars == <<hpc, frozen, bundle, environ, environ0, tcl_lib, tk_lib, loaded, raised>>

vars == <<fvars, avars, hvars>>

(***************************************************************************)
(* File-system helpers.                                                    *)
(***************************************************************************)
Exists(v, n) == n \in DOMAIN v
Has(v, n, p) == n \in DOMAIN v /\ p \in v[n]

\* shutil.rmtree(vendor / n)
RmTree(v, n) == [m \in DOMAIN v \ {n} |-> v[m]]

\* (vendor / src).rename(vendor / dst), dst absent
Rename(v, src, dst) ==
  [m \in (DOMAIN v \ {src}) \cup {dst} |-> IF m = dst THEN v[src] ELSE v[m]]

\* zip_ref.extractall(vendor_dir): the archive's trees are merged into vendor/
ExtractAll(v, a) ==
  [m \in DOMAIN v \cup DOMAIN a |->
     (IF m \in DOMAIN v THEN v[m] ELSE {}) \cup (IF m \in DOMAIN a THEN a[m] ELSE {})]

\* poppler_dir.exists() and (poppler_dir/"Library"/"bin"/"pdftoppm.exe").exists()
AlreadyDownloaded(v) == Exists(v, Poppler) /\ Has(v, Poppler, Exe)

\* A slip of the comparison: only an explicit 'n' declines.
DeclinedOnlyOnNo(r) == r = <<"n">>

\* response != 'y'
Declined(r) == r # <<"y">>

\* item.is_dir() and item.name.startswith(("poppler", "Release"))
\*   and (item / "Library" / "bin").exists()
IsCandidate(v, n) ==
  /\ Exists(v, n)
  /\ StartsWith(n, <<"poppler">>) \/ StartsWith(n, <<"Release">>)
  /\ Has(v, n, LibBin)

\* The loop over vendor_dir.iterdir() stops at the first candidate; the
\* order of iterdir() is the file system's, so any candidate can be first.
Detected(v) ==
  IF \E n \in Names : IsCandidate(v, n)
  THEN {n \in Names : IsCandidate(v, n)}
  ELSE {None}

\* if extracted_dir and extracted_dir != poppler_dir:
\*     if poppler_dir.exists(): shutil.rmtree(poppler_dir)
\*     extracted_dir.rename(poppler_dir)
Normalized(v, d) ==
  IF d # None /\ d # Poppler
  THEN Rename(IF Exists(v, Poppler) THEN RmTree(v, Poppler) ELSE v, d, Poppler)
  ELSE v

\* A slip of the final check: the binary's directory instead of the binary.
PdftoppmDirExists(v) == Has(v, Poppler, LibBin)

\* pdftoppm.exists()
PdftoppmExists(v) == Has(v, Poppler, Exe)

\* int(a / b), b # 0: Python's true division, truncated toward zero
TruncDiv(a, b) ==
  IF b > 0
  THEN (IF a >= 0 THEN a \div b ELSE -((-a) \div b))
  ELSE (IF a >= 0 THEN -(a \div (-b)) ELSE (-a) \div (-b))

\* progress_hook: percent = int(count * block_size * 100 / total_size)
Percent(count, block_size, total_size) ==
  TruncDiv(count * block_size * 100, total_size)

(***************************************************************************)
(* The Fetcher: download_poppler.main                                      *)
(***************************************************************************)
NoDownload == [blocknum |-> 0, bs |-> 0, size |-> 0]

FetcherInit ==
  /\ vendorExists \in BOOLEAN
  /\ vendor = << >>
  /\ zipExists = FALSE
  /\ pc = "idle"
  /\ response = <<>>
  /\ extracted_dir = None
  /\ out = <<>>
  /\ exitCode = 0
  /\ dl = NoDownload
  /\ percent = <<>>

\* the except branch of main: the report, the manual instructions, exit 1
DownloadFailed(msg) ==
  /\ out' = out \o <<msg, MsgManual>>
  /\ exitCode' = 1
  /\ pc' = "done"

\* main is started (again): its locals are fresh, and it tests whether the
\* toolkit is already there
FetcherStart ==
  /\ pc \in {"idle", "done"}
  /\ response' = <<>>
  /\ extracted_dir' = None
  /\ exitCode' = 0
  /\ dl' = NoDownload
  /\ percent' = <<>>
  /\ IF AlreadyDownloaded(vendor)
     THEN out' = <<MsgExists>> /\ pc' = "prompt"
     ELSE out' = <<>> /\ pc' = "mkdir"
  /\ UNCHANGED <<vendorExists, vendor, zipExists>>
  /\ UNCHANGED <<avars, hvars>>

\* response = input("Re-download? (y/N): ").strip().lower()
FetcherPrompt ==
  /\ pc = "prompt"
  /\ \E answer \in Answers :
       /\ response' = Lower(Strip(answer))
       /\ IF Declined(response')
          THEN /\ out' = Append(out, MsgSkip)
               /\ pc' = "done"
               /\ vendor' = vendor
          ELSE /\ vendor' = RmTree(vendor, Poppler)
               /\ pc' = "mkdir"
               /\ out' = out
  /\ UNCHANGED <<vendorExists, zipExists, extracted_dir, exitCode, dl, percent>>
  /\ UNCHANGED <<avars, hvars>>

\* vendor_dir.mkdir(parents=True, exist_ok=True)
FetcherMkdir ==
  /\ pc = "mkdir"
  /\ vendorExists' = TRUE
  /\ out' = Append(out, MsgDownloading)
  /\ pc' = "urlopen"
  /\ UNCHANGED <<vendor, zipExists, response, extracted_dir, exitCode, dl, percent>>
  /\ UNCHANGED <<avars, hvars>>

\* progress_hook(count, block_size, total_size) inside urlretrieve: a zero
\* total_size raises ZeroDivisionError, which main's except clause catches
HookCall(count, bs, size) ==
  IF size = 0
  THEN /\ DownloadFailed(MsgErrZeroDiv)
       /\ percent' = percent
  ELSE /\ percent' = <<Percent(count, bs, size)>>
       /\ pc' = "reading"
       /\ UNCHANGED <<out, exitCode>>

\* urlretrieve opens the URL and the destination file, and reports block 0
DownloadOpen ==
  /\ pc = "urlopen"
  /\ \/ \E bs \in 1..MaxBlockSize, size \in -1..MaxTotalSize :
          /\ dl' = [blocknum |-> 0, bs |-> bs, size |-> size]
          /\ zipExists' = TRUE
          /\ HookCall(0, bs, size)
     \/ /\ DownloadFailed(MsgErrTransport)
        /\ UNCHANGED <<dl, zipExists, percent>>
  /\ UNCHANGED <<vendorExists, vendor, response, extracted_dir>>
  /\ UNCHANGED <<avars, hvars>>

\* bytes of the body read so far are fewer than the body has
MoreToRead ==
  IF dl.size >= 0 THEN dl.blocknum * dl.bs < dl.size
                  ELSE dl.blocknum * dl.bs < MaxTotalSize

\* urlretrieve reads one more block (the last may be short) and reports it
DownloadBlock ==
  /\ pc = "reading"
  /\ MoreToRead
  /\ dl' = [dl EXCEPT !.blocknum = @ + 1]
  /\ HookCall(dl.blocknum + 1, dl.bs, dl.size)
  /\ UNCHANGED <<vendorExists, vendor, zipExists, response, extracted_dir>>
  /\ UNCHANGED <<avars, hvars>>

\* the body ends: urlretrieve returns (its locals and the hook's are gone), or
\* the transport fails (a reset, or a body shorter than Content-Length)
DownloadEnd ==
  /\ pc = "reading"
  /\ \/ /\ dl.size >= 0 => ~MoreToRead
        /\ pc' = "extract"
        /\ dl' = NoDownload
        /\ percent' = <<>>
        /\ UNCHANGED <<out, exitCode>>
     \/ /\ DownloadFailed(MsgErrTransport)
        /\ UNCHANGED <<dl, percent>>
  /\ UNCHANGED <<vendorExists, vendor, zipExists, response, extracted_dir>>
  /\ UNCHANGED <<avars, hvars>>

\* with zipfile.ZipFile(zip_path, 'r') as zip_ref: zip_ref.extractall(vendor_dir)
\* The file is an archive of some layout, or no archive at all: then
\* BadZipFile leaves main uncaught (a traceback, exit code 1).
FetcherExtract ==
  /\ pc = "extract"
  /\ \/ \E a \in Archives :
          /\ vendor' = ExtractAll(vendor, a)
          /\ out' = Append(out, MsgExtracting)
          /\ pc' = "detect"
          /\ exitCode' = exitCode
     \/ /\ out' = out \o <<MsgExtracting, MsgTraceback>>
        /\ exitCode' = 1
        /\ pc' = "done"
        /\ vendor' = vendor
  /\ UNCHANGED <<vendorExists, zipExists, response, extracted_dir, dl, percent>>
  /\ UNCHANGED <<avars, hvars>>

\* for item in vendor_dir.iterdir(): ...
FetcherDetect ==
  /\ pc = "detect"
  /\ extracted_dir' \in Detected(vendor)
  /\ pc' = "normalize"
  /\ UNCHANGED <<vendorExists, vendor, zipExists, response, out, exitCode, dl, percent>>
  /\ UNCHANGED <<avars, hvars>>

FetcherNormalize ==
  /\ pc = "normalize"
  /\ vendor' = Normalized(vendor, extracted_dir)
  /\ pc' = "cleanup"
  /\ UNCHANGED <<vendorExists, zipExists, response, extracted_dir, out, exitCode, dl,
                 percent>>
  /\ UNCHANGED <<avars, hvars>>

\* zip_path.unlink()
FetcherCleanup ==
  /\ pc = "cleanup"
  /\ out' = Append(out, MsgCleaning)
  /\ zipExists' = FALSE
  /\ pc' = "verify"
  /\ UNCHANGED <<vendorExists, vendor, response, extracted_dir, exitCode, dl, percent>>
  /\ UNCHANGED <<avars, hvars>>

FetcherVerify ==
  /\ pc = "verify"
  /\ IF PdftoppmExists(vendor)
     THEN out' = Append(out, MsgSuccess) /\ exitCode' = 0
     ELSE out' = Append(out, MsgNotFound) /\ exitCode' = 1
  /\ pc' = "done"
  /\ UNCHANGED <<vendorExists, vendor, zipExists, response, extracted_dir, dl, percent>>
  /\ UNCHANGED <<avars, hvars>>

FetcherStep ==
  \/ FetcherStart
  \/ FetcherPrompt
  \/ FetcherMkdir
  \/ DownloadOpen
  \/ DownloadBlock
  \/ DownloadEnd
  \/ FetcherExtract
  \/ FetcherDetect
  \/ FetcherNormalize
  \/ FetcherCleanup
  \/ FetcherVerify

(***************************************************************************)
(* The Assembler: build_macos.main                                         *)
(***************************************************************************)
AMsgBundled == "[OK] Bundled Poppler found at"
AMsgSystem == "[OK] System Poppler found at"
AMsgHomebrew == "Homebrew prefix"
AMsgNoPoppler == "[!] Poppler NOT found"
AMsgCleaningBuilds == "[1/4] Cleaning previous builds..."
AMsgConfiguring == "[2/4] Configuring PyInstaller..."
AMsgBuilding == "[3/4] Building application"
AMsgPyInstallerFailed == "Error: PyInstaller failed with exit code"
AMsgPyInstallerMissing == "Error: PyInstaller not found"
AMsgVerifying == "[4/4] Verifying build..."
AMsgBuildSuccessful == "BUILD SUCCESSFUL!"
AMsgStandalone == "[OK] Poppler is bundled - fully standalone!"
AMsgNotBundled == "[!] Poppler NOT bundled"
AMsgAppMissing == "Error: Application not found after build"

\* How a probing subprocess (which pdftoppm, brew --prefix poppler) ends.
ProbeOutcomes == {"rc0", "rc1", "FileNotFoundError"}

\* check_system_poppler(): the path `which` printed, or None
check_system_poppler(outcome) ==
  IF outcome = "rc0" THEN <<"/usr/local/bin/pdftoppm">> ELSE None

\* get_homebrew_poppler_path(): the prefix brew printed, or None
get_homebrew_poppler_path(outcome) ==
  IF outcome = "rc0" THEN <<"/usr/local/opt/poppler">> ELSE None

\* What find_tcl_tk_libs() can return: the Tcl/Tk dylibs and data directories
\* found below sys.base_prefix.
TclTkBinaryFinds ==
  { <<>>, <<"lib/libtcl9.0.dylib">>, <<"lib/libtcl9.0.dylib", "lib/libtcl9tk9.0.dylib">> }
TclTkDataFinds == { <<>>, <<"tcl9.0", "tk9.0">> }

\* Which of assets/icon.icns and assets/icon.ico exist.
IconFiles == { {}, {"icon.icns"}, {"icon.ico"}, {"icon.icns", "icon.ico"} }

\* One element of pyinstaller_args: an option, with the source and the
\* destination of what it embeds.
Arg(opt) == [opt |-> opt, src |-> "", dest |-> ""]
Embed(opt, src, dest) == [opt |-> opt, src |-> src, dest |-> dest]

VendorPoppler == "vendor/poppler"

\* poppler_bin.exists() and (poppler_bin / "pdftoppm").exists(),
\* poppler_bin = vendor/poppler/bin
HasBundledPoppler(v) == Has(v, Poppler, MacBinDir) /\ Has(v, Poppler, MacBin)

\* the first report of main, on the three probes
PopplerReport(bundled, system_poppler, homebrew_poppler) ==
  IF bundled THEN <<AMsgBundled>>
  ELSE IF system_poppler # None
       THEN (IF homebrew_poppler # None THEN <<AMsgSystem, AMsgHomebrew>>
                                        ELSE <<AMsgSystem>>)
       ELSE <<AMsgNoPoppler>>

\* A slip of the cleaning: the *.spec files are left behind.
CleanedDirsOnly(fs) == [fs EXCEPT !.build = FALSE, !.dist = FALSE, !.app = FALSE]

\* build/ and dist/ removed with shutil.rmtree, every *.spec unlinked
CleanedBuild(fs) == [build |-> FALSE, dist |-> FALSE, spec |-> FALSE, app |-> FALSE]

BaseArgs ==
  << Arg("pyinstaller"), Arg("--onefile"), Arg("--windowed"),
     Arg("--name=PDF Compare"), Arg("--clean"),
     Embed("--add-data", "python/comparator.py", "python"),
     Embed("--add-data", "python/compare_pdf.py", "python"),
     Arg("--collect-all=customtkinter"), Arg("--collect-all=tkinter"),
     Embed("--runtime-hook", "scripts/pyinstaller_hooks/rthook_tcltk_macos.py", ""),
     Arg("--codesign-identity=-") >>

\* pyinstaller_args.append(f"--add-binary={lib}:.") for every library found
TclTkBinaryArgs(libs) == [i \in 1..Len(libs) |-> Embed("--add-binary", libs[i], ".")]

\* pyinstaller_args.append(f"--add-data={data_dir}:{data_dir.name}")
TclTkDataArgs(dirs) == [i \in 1..Len(dirs) |-> Embed("--add-data", dirs[i], dirs[i])]

\* A slip of the embedding: the entry is added whatever the check said.
PopplerArgsAlways(bundled) == << Embed("--add-data", VendorPoppler, "poppler") >>

\* if has_bundled_poppler: pyinstaller_args.append(f"--add-data={poppler_dir}:poppler")
PopplerArgs(bundled) ==
  IF bundled THEN << Embed("--add-data", VendorPoppler, "poppler") >> ELSE <<>>

HiddenImportArgs ==
  << Arg("--hidden-import=PIL"), Arg("--hidden-import=PIL.Image"),
     Arg("--hidden-import=customtkinter"), Arg("--hidden-import=cv2"),
     Arg("--hidden-import=numpy"), Arg("--hidden-import=pdf2image"),
     Arg("--hidden-import=pdfplumber") >>

\* icon.icns if it exists, else icon.ico if that exists, else no --icon
IconArgs(icons) ==
  IF "icon.icns" \in icons THEN << Embed("--icon", "assets/icon.icns", "") >>
  ELSE IF "icon.ico" \in icons THEN << Embed("--icon", "assets/icon.ico", "") >>
  ELSE <<>>

\* the argument list, in the order main builds it
BuildArgs(bundled, libs, dirs, icons) ==
  BaseArgs \o TclTkBinaryArgs(libs) \o TclTkDataArgs(dirs) \o PopplerArgs(bundled)
    \o HiddenImportArgs \o IconArgs(icons)
    \o << Arg("--osx-bundle-identifier=com.pdfcompare.app"), Arg("python/main.py") >>

NoBuild == [build |-> FALSE, dist |-> FALSE, spec |-> FALSE, app |-> FALSE]

\* The project root as a run of the freezing tool can leave it.
BuildStates ==
  { fs \in [build : BOOLEAN, dist : BOOLEAN, spec : BOOLEAN, app : BOOLEAN] :
      fs.app => fs.dist }

AssemblerIdle ==
  /\ apc = "idle"
  /\ has_bundled_poppler = FALSE
  /\ pyinstaller_args = <<>>
  /\ result = "notrun"
  /\ aout = <<>>
  /\ aexit = 0

\* main up to the report on Poppler (lines 89-118)
AssemblerStart ==
  /\ apc \in {"idle", "done"}
  /\ has_bundled_poppler' = HasBundledPoppler(vendor)
  /\ \E w \in ProbeOutcomes, b \in ProbeOutcomes :
       aout' = PopplerReport(has_bundled_poppler', check_system_poppler(w),
                             get_homebrew_poppler_path(b))
  /\ pyinstaller_args' = <<>>
  /\ result' = "notrun"
  /\ aexit' = 0
  /\ apc' = "clean"
  /\ UNCHANGED <<buildfs, fvars, hvars>>

\* Clean previous builds (lines 120-130)
AssemblerClean ==
  /\ apc = "clean"
  /\ buildfs' = CleanedBuild(buildfs)
  /\ aout' = Append(aout, AMsgCleaningBuilds)
  /\ apc' = "configure"
  /\ UNCHANGED <<has_bundled_poppler, pyinstaller_args, result, aexit, fvars, hvars>>

\* The argument list (lines 132-211)
AssemblerConfigure ==
  /\ apc = "configure"
  /\ \E libs \in TclTkBinaryFinds, dirs \in TclTkDataFinds, icons \in IconFiles :
       pyinstaller_args' = BuildArgs(has_bundled_poppler, libs, dirs, icons)
  /\ aout' = Append(aout, AMsgConfiguring)
  /\ apc' = "run"
  /\ UNCHANGED <<has_bundled_poppler, buildfs, result, aexit, fvars, hvars>>

\* subprocess.run(pyinstaller_args, check=True) (lines 213-226): the tool is
\* missing, or it runs, writes what it writes and exits with 0 or not
AssemblerRun ==
  /\ apc = "run"
  /\ \/ /\ result' = "FileNotFoundError"
        /\ buildfs' = buildfs
        /\ aout' = aout \o <<AMsgBuilding, AMsgPyInstallerMissing>>
        /\ aexit' = 1
        /\ apc' = "done"
     \/ /\ result' = "CalledProcessError"
        /\ buildfs' \in BuildStates
        /\ aout' = aout \o <<AMsgBuilding, AMsgPyInstallerFailed>>
        /\ aexit' = 1
        /\ apc' = "done"
     \/ /\ result' = "rc0"
        /\ buildfs' \in BuildStates
        /\ aout' = Append(aout, AMsgBuilding)
        /\ aexit' = aexit
        /\ apc' = "verify"
  /\ UNCHANGED <<has_bundled_poppler, pyinstaller_args, fvars, hvars>>

\* Verify output (lines 228-272)
AssemblerVerify ==
  /\ apc = "verify"
  /\ IF buildfs.app
     THEN /\ aout' = aout \o <<AMsgVerifying, AMsgBuildSuccessful,
                                IF has_bundled_poppler THEN AMsgStandalone
                                                       ELSE AMsgNotBundled>>
          /\ aexit' = 0
     ELSE /\ aout' = aout \o <<AMsgVerifying, AMsgAppMissing>>
          /\ aexit' = 1
  /\ apc' = "done"
  /\ UNCHANGED <<has_bundled_poppler, buildfs, pyinstaller_args, result, fvars, hvars>>

(***************************************************************************)
(* The runtime hook: rthook_tcltk_macos.py                                 *)
(***************************************************************************)
TclDataDir == "tcl9.0"
TkDataDir == "tk9.0"
TclPrimary == "libtcl9.0.dylib"
TkPrimary == "libtcl9tk9.0.dylib"
TclSecondary == "libtcl8.6.dylib"
TkSecondary == "libtk8.6.dylib"
LibNames == {TclPrimary, TkPrimary, TclSecondary, TkSecondary}
BundleNames == {TclDataDir, TkDataDir} \cup LibNames

\* What the extraction directory can hold: the data entries are absent, a
\* file or a directory, every library is absent or a file.
Bundles ==
  { b \in [BundleNames -> {"absent", "file", "dir"}] :
      \A n \in LibNames : b[n] # "dir" }

EnvNames == {"TCL_LIBRARY", "TK_LIBRARY"}
Environs == [EnvNames -> {"unset", "ambient"}]

\* os.path.isdir / os.path.exists of os.path.join(bundle_dir, name)
IsDir(b, name) == b[name] = "dir"
PathExists(b, name) == b[name] # "absent"

\* A slip of the fallback: the older name is never tried.
ResolveLibNoFallback(b, primary, secondary) == primary

\* the primary name, or the older name when the primary is absent
ResolveLib(b, primary, secondary) ==
  IF ~PathExists(b, primary) THEN secondary ELSE primary

HookIdle ==
  /\ hpc = "start"
  /\ tcl_lib = ""
  /\ tk_lib = ""
  /\ loaded = <<>>
  /\ raised = FALSE
  /\ environ = environ0

\* if getattr(sys, 'frozen', False): (line 10)
HookStart ==
  /\ hpc = "start"
  /\ hpc' = IF frozen THEN "environ" ELSE "done"
  /\ UNCHANGED <<frozen, bundle, environ, environ0, tcl_lib, tk_lib, loaded, raised>>
  /\ UNCHANGED <<fvars, avars>>

\* TCL_LIBRARY and TK_LIBRARY (lines 15-21)
HookSetEnviron ==
  /\ hpc = "environ"
  /\ environ' =
       [n \in EnvNames |->
          IF n = "TCL_LIBRARY" /\ IsDir(bundle, TclDataDir) THEN TclDataDir
          ELSE IF n = "TK_LIBRARY" /\ IsDir(bundle, TkDataDir) THEN TkDataDir
          ELSE environ[n]]
  /\ hpc' = "resolve"
  /\ UNCHANGED <<frozen, bundle, environ0, tcl_lib, tk_lib, loaded, raised>>
  /\ UNCHANGED <<fvars, avars>>

\* tcl_lib and tk_lib, with the fallback to the older naming (lines 25-32)
HookResolve ==
  /\ hpc = "resolve"
  /\ tcl_lib' = ResolveLib(bundle, TclPrimary, TclSecondary)
  /\ tk_lib' = ResolveLib(bundle, TkPrimary, TkSecondary)
  /\ hpc' = "load_tcl"
  /\ UNCHANGED <<frozen, bundle, environ, environ0, loaded, raised>>
  /\ UNCHANGED <<fvars, avars>>

\* ctypes.CDLL(path, mode=RTLD_GLOBAL): loads an existing library and raises
\* OSError for a missing one
CDLL(path, next) ==
  IF bundle[path] = "file"
  THEN loaded' = Append(loaded, path) /\ raised' = raised /\ hpc' = next
  ELSE loaded' = loaded /\ raised' = TRUE /\ hpc' = "done"

\* if os.path.exists(tcl_lib): ctypes.CDLL(tcl_lib, ...) (lines 34-35)
HookLoadTcl ==
  /\ hpc = "load_tcl"
  /\ IF PathExists(bundle, tcl_lib)
     THEN CDLL(tcl_lib, "load_tk")
     ELSE UNCHANGED <<loaded, raised>> /\ hpc' = "load_tk"
  /\ UNCHANGED <<frozen, bundle, environ, environ0, tcl_lib, tk_lib>>
  /\ UNCHANGED <<fvars, avars>>

\* if os.path.exists(tk_lib): ctypes.CDLL(tk_lib, ...) (lines 36-37)
HookLoadTk ==
  /\ hpc = "load_tk"
  /\ IF PathExists(bundle, tk_lib)
     THEN CDLL(tk_lib, "done")
     ELSE UNCHANGED <<loaded, raised>> /\ hpc' = "done"
  /\ UNCHANGED <<frozen, bundle, environ, environ0, tcl_lib, tk_lib>>
  /\ UNCHANGED <<fvars, avars>>

(***************************************************************************)
(* Claims about the Fetcher.                                               *)
(***************************************************************************)
Printed(m) == \E i \in 1..Len(out) : out[i] = m

\* The run got past the download step / past the unpacking.
PastDownload == Printed(MsgExtracting)
PastUnpacking == Printed(MsgCleaning)

\* C1: whenever a Fetcher run has terminated (success, exit 1 or declined
\* prompt), vendor/poppler either does not exist or is a toolkit root
\* holding Library/bin/pdftoppm.exe.
C1_CanonicalPathNeverPartial ==
  pc = "done" => (~Exists(vendor, Poppler) \/ Has(vendor, Poppler, Exe))

\* C2: after any Fetcher run that got past the download step, whether it ends
\* in success or in failure, vendor/poppler.zip is absent.
C2_ArchiveAbsentAfterRun ==
  (pc = "done" /\ PastDownload) => ~zipExists

\* C3: when, after unpacking, a child directory other than vendor/poppler has
\* a matching name prefix and holds Library/bin/pdftoppm.exe, then whatever
\* else is in vendor/ and whatever the scan order, after the normalization
\* step vendor/poppler/Library/bin/pdftoppm.exe exists and detection run
\* again finds a root.
C3_NormalizationResolvesBinary ==
  [][ ( /\ pc = "normalize"
        /\ pc' = "cleanup"
        /\ \E n \in Names \ {Poppler} : IsCandidate(vendor, n) /\ Has(vendor, n, Exe) )
      => ( /\ Has(vendor', Poppler, Exe)
           /\ Detected(vendor') # {None} ) ]_vars

\* C4: a run whose download and unpacking raised nothing and after which no
\* child directory of vendor/ holds Library/bin/pdftoppm.exe reports the
\* failure, never prints the success outcome and ends with exit code 1.
\* (Normalization only renames and deletes directories, so a vendor/ without
\* the binary after unpacking is a vendor/ without it at the end.)
C4_NoBinaryMeansFailure ==
  ( /\ pc = "done"
    /\ PastUnpacking
    /\ \A n \in Names : ~Has(vendor, n, Exe) )
  => ( /\ exitCode = 1
       /\ ~Printed(MsgSuccess)
       /\ Printed(MsgNotFound) )

\* C4's case: an archive was unpacked, a root was even detected, and no
\* directory holds the binary.
C4_Witness ==
  /\ pc = "done"
  /\ PastUnpacking
  /\ \A n \in Names : ~Has(vendor, n, Exe)
  /\ extracted_dir # None
  /\ exitCode = 1

\* C5: a run in which root detection found no matching child directory is
\* reported as an extraction-structure failure, not by the report of the
\* final-verification failure.
C5_NoMatchReportedSeparately ==
  ( /\ pc = "done"
    /\ PastUnpacking
    /\ extracted_dir = None )
  => ~Printed(MsgNotFound)

\* The project's file system as the Fetcher sees it.
FetcherFiles == <<vendorExists, vendor, zipExists>>

\* C6: when vendor/poppler already holds the binary the Fetcher prompts before
\* it deletes, downloads or unpacks anything, and for every answer that is
\* not 'y' once stripped and lower-cased (the empty answer included) the run
\* ends without error and with vendor/ unchanged.
C6_DeclineLeavesVendorUntouched ==
  [][ /\ ( (pc \in {"idle", "done"} /\ AlreadyDownloaded(vendor))
           => (pc' = "prompt" /\ FetcherFiles' = FetcherFiles) )
      /\ ( (pc = "prompt" /\ response' # <<"y">>)
           => ( /\ pc' = "done"
                /\ exitCode' = 0
                /\ FetcherFiles' = FetcherFiles
                /\ out' = <<MsgExists, MsgSkip>> ) ) ]_vars

\* C6's case: the installation was there, the operator typed nothing, and the
\* run has ended.
C6_Witness ==
  /\ pc = "done"
  /\ Printed(MsgExists)
  /\ response = <<>>
  /\ AlreadyDownloaded(vendor)

\* C9: every progress value written is an integer in 0..100, and computing it
\* never makes the download be reported as failed.
C9_PercentInRange ==
  /\ percent # <<>> => percent[1] \in 0..100
  /\ ~Printed(MsgErrZeroDiv)

(***************************************************************************)
(* Claims about the Assembler and the end-to-end scenario.                 *)
(***************************************************************************)
\* The Fetcher's run ended with the success outcome.
FetcherSucceeded == pc = "done" /\ exitCode = 0 /\ Printed(MsgSuccess)

APrinted(m) == \E i \in 1..Len(aout) : aout[i] = m

\* The argument list has been built.
Configured == apc \in {"run", "verify", "done"}

\* Entries of the argument list that reference vendor/poppler.
PopplerEmbeds(args) == Cardinality({i \in 1..Len(args) : args[i].src = VendorPoppler})

C8_AssemblerOutcomes ==
  /\ apc \in {"configure", "run"} => buildfs = NoBuild
  /\ apc \in {"verify", "done"} => result # "notrun"
  /\ apc = "done" =>
       /\ result = "CalledProcessError" =>
            (aexit = 1 /\ APrinted(AMsgPyInstallerFailed))
       /\ result = "FileNotFoundError" =>
            (aexit = 1 /\ APrinted(AMsgPyInstallerMissing))
       /\ (result = "rc0" /\ ~buildfs.app) =>
            (aexit = 1 /\ APrinted(AMsgAppMissing))
       /\ (aexit = 0 \/ APrinted(AMsgBuildSuccessful)) =>
            (result = "rc0" /\ buildfs.app)

\* C8's case: the degraded build. No Poppler anywhere, no Tcl/Tk library
\* found, and the build went through with the not-bundled warning.
C8_Witness ==
  /\ apc = "done"
  /\ APrinted(AMsgNoPoppler)
  /\ \A i \in 1..Len(pyinstaller_args) : pyinstaller_args[i].opt # "--add-binary"
  /\ result = "rc0"
  /\ aexit = 0
  /\ APrinted(AMsgNotBundled)

(***************************************************************************)
(* Claims about the runtime hook.                                          *)
(***************************************************************************)
\* The library the hook is to load for one toolkit: the primary name when it
\* is there, else the secondary name when that is there, else none.
Preferred(primary, secondary) ==
  IF bundle[primary] = "file" THEN <<primary>>
  ELSE IF bundle[secondary] = "file" THEN <<secondary>>
  ELSE <<>>

\* C10: frozen, the hook loads for Tcl and then for Tk, each on its own, the
\* primary library if present and else the secondary one if present (so both
\* secondary ones when only those are there), loads nothing for a library
\* absent under both names, and raises nothing; not frozen, it loads nothing
\* and changes no environment variable.
C10_HookLoadsWithFallback ==
  /\ ~raised
  /\ ~frozen => (loaded = <<>> /\ environ = environ0)
  /\ (hpc = "done" /\ frozen) =>
       loaded = Preferred(TclPrimary, TclSecondary) \o Preferred(TkPrimary, TkSecondary)

\* C10's case: only the secondary libraries are in the extraction directory,
\* and the hook has loaded both, Tcl first.
C10_Witness ==
  /\ hpc = "done"
  /\ frozen
  /\ bundle[TclPrimary] = "absent" /\ bundle[TkPrimary] = "absent"
  /\ loaded = <<TclSecondary, TkSecondary>>

(***************************************************************************)
(* Specifications.                                                         *)
(***************************************************************************)
\* The Fetcher, run any number of times on a vendor/ that starts empty.
Init ==
  /\ FetcherInit
  /\ AssemblerIdle /\ buildfs = NoBuild
  /\ frozen = FALSE /\ bundle = [n \in BundleNames |-> "absent"]
  /\ environ0 = [n \in EnvNames |-> "unset"]
  /\ HookIdle

Next == FetcherStep

Spec == Init /\ [][Next]_vars

\* The Assembler, run any number of times: vendor/poppler is absent or holds
\* what a Fetcher run or a manual installation left, and the project root
\* holds what an earlier build left.
AssemblerInit ==
  /\ vendor \in {<< >>} \cup {[n \in {Poppler} |-> l] : l \in Layouts}
  /\ vendorExists \in BOOLEAN
  /\ vendor # << >> => vendorExists
  /\ zipExists = FALSE
  /\ pc = "idle"
  /\ response = <<>>
  /\ extracted_dir = None
  /\ out = <<>>
  /\ exitCode = 0
  /\ dl = NoDownload
  /\ percent = <<>>
  /\ AssemblerIdle
  /\ buildfs \in BuildStates
  /\ frozen = FALSE /\ bundle = [n \in BundleNames |-> "absent"]
  /\ environ0 = [n \in EnvNames |-> "unset"]
  /\ HookIdle

AssemblerNext ==
  \/ AssemblerStart
  \/ AssemblerClean
  \/ AssemblerConfigure
  \/ AssemblerRun
  \/ AssemblerVerify

AssemblerSpec == AssemblerInit /\ [][AssemblerNext]_vars

\* The end-to-end scenario: vendor/ is empty, the Fetcher runs once, and
\* after a run that ended in success the Assembler runs once.
PipelineFetcherStart == pc = "idle" /\ FetcherStart
PipelineAssemblerStart == apc = "idle" /\ FetcherSucceeded /\ AssemblerStart

PipelineNext ==
  \/ PipelineFetcherStart
  \/ FetcherMkdir
  \/ DownloadOpen
  \/ DownloadBlock
  \/ DownloadEnd
  \/ FetcherExtract
  \/ FetcherDetect
  \/ FetcherNormalize
  \/ FetcherCleanup
  \/ FetcherVerify
  \/ PipelineAssemblerStart
  \/ AssemblerClean
  \/ AssemblerConfigure
  \/ AssemblerRun
  \/ AssemblerVerify

PipelineSpec == Init /\ [][PipelineNext]_vars

\* The runtime hook, executed once at the start of a process.
HookInit ==
  /\ FetcherInit
  /\ AssemblerIdle /\ buildfs = NoBuild
  /\ frozen \in BOOLEAN
  /\ bundle \in Bundles
  /\ environ0 \in Environs
  /\ HookIdle

HookNext ==
  \/ HookStart
  \/ HookSetEnviron
  \/ HookResolve
  \/ HookLoadTcl
  \/ HookLoadTk

HookSpec == HookInit /\ [][HookNext]_vars

====
